---- MODULE Spec2Model ----
(***************************************************************************)
(* net_modeler: the graph store (Network) and its force-directed layout,   *)
(* src/src/components/network.rs.                                          *)
(*                                                                         *)
(* Numbers.  The program computes in f64.  Here a coordinate and a         *)
(* displacement component are whole pixels, and every length the program   *)
(* floors at 1e-2 (dist, disp_len), the temperature, k and the returned    *)
(* max_displacement are counted in hundredths of a pixel, so the floor     *)
(* 1e-2 is the integer 1.  Division truncates toward zero and sqrt is the  *)
(* floor of the root, taken to the precision 32-bit integers allow. The    *)
(* canvas sizes are small so that no intermediate value leaves 32 bits.    *)
(***************************************************************************)
EXTENDS Integers, Sequences, FiniteSets, TLC

(* ------------------------------ bounds -------------------------------- *)
MaxEdges == 2
MaxIterations == 2
MaxMessages == 3

(* ------------------------------ inputs -------------------------------- *)
(* The ids add_node is called with; "Node3" enters the store only through *)
(* the records of NetworkLoad.                                             *)
Ids == {"Node1", "Node2"}
AllIds == {"Node1", "Node2", "Node3"}
Points == {<<40, 60>>, <<43, 64>>}
Radii == {5}
Canvases == {<<120, 120>>, <<60, 120>>, <<120, 60>>}
(* The canvases of the layout runs: on the first the box [50, width-50] is *)
(* wider than the largest temperature, width / 5; the other two have an    *)
(* empty box.                                                              *)
WideCanvases == {<<150, 150>>, <<60, 120>>, <<120, 60>>}
Link(link_id, source_node, destination_node, capacity, weight) ==
    [link_id |-> link_id, source_node |-> source_node,
     destination_node |-> destination_node,
     capacity |-> capacity, weight |-> weight]
(* The three rows of the test's CSV, and a self-loop. *)
Links == {Link("link_A", "Node1", "Node2", 100, 10),
          Link("link_B", "Node2", "Node3", 50, 5),
          Link("link_C", "Node1", "Node3", 75, 8),
          Link("link_D", "Node1", "Node1", 20, 2)}

(* The positions the nodes of a layout run start from: the (0.0, 0.0) the  *)
(* test's loader gives every node, a point outside the box of the first    *)
(* of WideCanvases and one inside it.                                      *)
StartPoints == {<<0, 0>>, <<43, 64>>, <<90, 80>>}
(* The ids and the link ids in the order the layout runs insert them. *)
NodeIds == <<"Node1", "Node2", "Node3">>
LinkIds == <<"link_A", "link_B", "link_C", "link_D">>

(* The window of main.rs, 800.0 x 600.0 there.  It is kept to 150 x 150    *)
(* here, which leaves the box [50, width-50] x [50, height-50] not empty   *)
(* and wider than the temperature, and k * k within 32 bits.               *)
WindowWidth == 150
WindowHeight == 150
(* The rounds of the layout call main makes before the window opens. *)
MainIterations == 50
(* The positions rand::random_range gives the nodes in main, the points    *)
(* of a click, one of them outside the box, and the offsets of a drag.     *)
RandomPoints == {<<60, 70>>, <<90, 80>>}
ClickPoints == {<<20, 130>>, <<75, 60>>}
DragOffsets == {<<-40, 5>>, <<10, -5>>}

(* Option<T>: None is the empty set, Some(v) the singleton. *)
None == {}
Some(v) == {v}

(* ---------------------------- arithmetic ------------------------------ *)
Max(a, b) == IF a >= b THEN a ELSE b

(* f64 division, truncated toward zero; b > 0. *)
Quot(a, b) == IF a >= 0 THEN a \div b ELSE -((-a) \div b)

RECURSIVE IsqrtIn(_, _, _)
IsqrtIn(n, lo, hi) ==
    IF lo >= hi THEN lo
    ELSE LET mid == (lo + hi + 1) \div 2
         IN  IF mid * mid <= n THEN IsqrtIn(n, mid, hi)
                               ELSE IsqrtIn(n, lo, mid - 1)

(* floor(sqrt(n)) for 0 <= n < 2^31. *)
Isqrt(n) == IsqrtIn(n, 0, 46340)

(* f64::sqrt of a whole number n, in hundredths. *)
SqrtH(n) ==
    IF n <= 200000 THEN Isqrt(n * 10000)
    ELSE IF n <= 20000000 THEN Isqrt(n * 100) * 10
    ELSE Isqrt(n) * 100

(* clamp with the lower bound left out. *)
clamp_upper_only(v, lo, hi) == IF v > hi THEN hi ELSE v

(* f64::clamp(v, lo, hi); the caller has checked lo <= hi. *)
clamp(v, lo, hi) == IF v < lo THEN lo ELSE IF v > hi THEN hi ELSE v

(* ------------------------------ state --------------------------------- *)
(* network: the Network.  pc: "idle" between calls, "layout" inside       *)
(* apply_force_directed_layout, "panic" once a call has panicked.          *)
(* layout: the locals of the running layout call, with done, the rounds    *)
(* completed, round_max, the max_displacement each round ended with,       *)
(* before, the nodes as the last round found them, and repelled, the       *)
(* accumulators as its repulsion step left them.                           *)
(* last: the last call,                                                    *)
(* its arguments, the store before it and what it returned.  iters: the    *)
(* layout rounds run so far, a call of zero rounds counting as one, capped *)
(* by MaxIterations.  first_insert:                                        *)
(* for every id ever passed to add_node, the index its first insertion     *)
(* returned and the position that insertion gave it.                       *)
(* app: the fields of AppModel beside the network, dragged_node and        *)
(* needs_redraw, with handled, the messages update has processed, and      *)
(* started, the indices StartDrag was given since the last EndDrag.        *)
VARIABLES network, pc, layout, last, iters, first_insert, app

vars == <<network, pc, layout, last, iters, first_insert, app>>

(* AppModel { network, dragged_node: None, needs_redraw: false } *)
AppNew ==
    [dragged_node |-> None, needs_redraw |-> FALSE, handled |-> 0, started |-> {}]

(* Network::new *)
NetworkNew ==
    [graph |-> [nodes |-> <<>>, edges |-> <<>>],
     node_indices |-> [s \in {} |-> 0]]

node_count(net) == Len(net.graph.nodes)
edge_count(net) == Len(net.graph.edges)

(* graph.node_weight(NodeIndex::new(i)): indices are 0-based. *)
node_weight(net, i) == net.graph.nodes[i + 1]

(* Network::nodes: the node weights in index order. *)
nodes(net) == net.graph.nodes

(* ------------------------------ store --------------------------------- *)
(* add_node overwriting the stored node when the id is already present. *)
add_node_relocating(net, node) ==
    IF node.id \in DOMAIN net.node_indices
    THEN LET i == net.node_indices[node.id]
         IN  [network |-> [net EXCEPT !.graph.nodes[i + 1].point = node.point],
              ret |-> i]
    ELSE [network |->
             [graph |-> [net.graph EXCEPT !.nodes = Append(@, node)],
              node_indices |->
                 [s \in DOMAIN net.node_indices \cup {node.id} |->
                     IF s = node.id THEN node_count(net)
                                    ELSE net.node_indices[s]]],
          ret |-> node_count(net)]

(* add_node without the lookup: every call appends. *)
add_node_appending(net, node) ==
    [network |->
        [graph |-> [net.graph EXCEPT !.nodes = Append(@, node)],
         node_indices |->
            [s \in DOMAIN net.node_indices \cup {node.id} |->
                IF s = node.id THEN node_count(net)
                               ELSE net.node_indices[s]]],
     ret |-> node_count(net)]

(* Network::add_node: the store after the call and the index returned. *)
add_node(net, node) ==
    IF node.id \in DOMAIN net.node_indices
    THEN [network |-> net, ret |-> net.node_indices[node.id]]
    ELSE [network |->
             [graph |-> [net.graph EXCEPT !.nodes = Append(@, node)],
              node_indices |->
                 [s \in DOMAIN net.node_indices \cup {node.id} |->
                     IF s = node.id THEN node_count(net)
                                    ELSE net.node_indices[s]]],
          ret |-> node_count(net)]

Ok == [ok |-> TRUE]
NodeNotFound(id) == [ok |-> FALSE, err |-> "NodeNotFound", id |-> id]

(* add_link looking the destination up before the source. *)
add_link_destination_first(net, link) ==
    IF link.destination_node \notin DOMAIN net.node_indices
    THEN [network |-> net, ret |-> NodeNotFound(link.destination_node)]
    ELSE IF link.source_node \notin DOMAIN net.node_indices
    THEN [network |-> net, ret |-> NodeNotFound(link.source_node)]
    ELSE [network |->
             [net EXCEPT !.graph.edges =
                 Append(@, [src |-> net.node_indices[link.source_node],
                            dst |-> net.node_indices[link.destination_node],
                            link |-> link])],
          ret |-> Ok]

(* add_link passing source_index for both ends of the edge. *)
add_link_source_twice(net, link) ==
    IF link.source_node \notin DOMAIN net.node_indices
    THEN [network |-> net, ret |-> NodeNotFound(link.source_node)]
    ELSE IF link.destination_node \notin DOMAIN net.node_indices
    THEN [network |-> net, ret |-> NodeNotFound(link.destination_node)]
    ELSE [network |->
             [net EXCEPT !.graph.edges =
                 Append(@, [src |-> net.node_indices[link.source_node],
                            dst |-> net.node_indices[link.source_node],
                            link |-> link])],
          ret |-> Ok]

(* add_link refusing a second edge between a pair already linked. *)
add_link_deduplicating(net, link) ==
    IF link.source_node \notin DOMAIN net.node_indices
    THEN [network |-> net, ret |-> NodeNotFound(link.source_node)]
    ELSE IF link.destination_node \notin DOMAIN net.node_indices
    THEN [network |-> net, ret |-> NodeNotFound(link.destination_node)]
    ELSE IF \E e \in 1 .. Len(net.graph.edges) :
               {net.graph.edges[e].src, net.graph.edges[e].dst} =
               {net.node_indices[link.source_node],
                net.node_indices[link.destination_node]}
    THEN [network |-> net, ret |-> Ok]
    ELSE [network |->
             [net EXCEPT !.graph.edges =
                 Append(@, [src |-> net.node_indices[link.source_node],
                            dst |-> net.node_indices[link.destination_node],
                            link |-> link])],
          ret |-> Ok]

(* Network::add_link: the store after the call and the Result returned. *)
add_link(net, link) ==
    IF link.source_node \notin DOMAIN net.node_indices
    THEN [network |-> net, ret |-> NodeNotFound(link.source_node)]
    ELSE IF link.destination_node \notin DOMAIN net.node_indices
    THEN [network |-> net, ret |-> NodeNotFound(link.destination_node)]
    ELSE [network |->
             [net EXCEPT !.graph.edges =
                 Append(@, [src |-> net.node_indices[link.source_node],
                            dst |-> net.node_indices[link.destination_node],
                            link |-> link])],
          ret |-> Ok]

(* A strict comparison in place of `<=`. *)
within_radius_strict(dx, dy, radius) == SqrtH(dx * dx + dy * dy) < radius * 100

(* (dx * dx + dy * dy).sqrt() <= radius *)
within_radius(dx, dy, radius) == SqrtH(dx * dx + dy * dy) <= radius * 100

(* Network::find_node_at_point, over the nodes from index i on. *)
RECURSIVE find_from(_, _, _, _, _)
find_from(net, i, x, y, radius) ==
    IF i >= node_count(net) THEN None
    ELSE LET node == nodes(net)[i + 1]
             dx == x - node.point[1]
             dy == y - node.point[2]
         IN  IF within_radius(dx, dy, radius)
             THEN Some(i)
             ELSE find_from(net, i + 1, x, y, radius)

find_node_at_point(net, x, y, radius) == find_from(net, 0, x, y, radius)

(* ----------------------- construction from records ------------------- *)
(* network_load_successful, "First, add nodes": add_node for the source    *)
(* and the destination of every record from number r on, at (0.0, 0.0).    *)
RECURSIVE load_nodes(_, _, _)
load_nodes(net, records, r) ==
    IF r > Len(records) THEN net
    ELSE LET a == add_node(net, [id |-> records[r].source_node,
                                 point |-> <<0, 0>>]).network
             b == add_node(a, [id |-> records[r].destination_node,
                               point |-> <<0, 0>>]).network
         IN  load_nodes(b, records, r + 1)

(* "Then, add links": add_link(link).expect(..) for every record from      *)
(* number r on; expect panics on the first Err.                            *)
RECURSIVE load_links(_, _, _)
load_links(net, records, r) ==
    IF r > Len(records) THEN [network |-> net, panicked |-> FALSE]
    ELSE LET a == add_link(net, records[r])
         IN  IF a.ret.ok THEN load_links(a.network, records, r + 1)
                         ELSE [network |-> a.network, panicked |-> TRUE]

(* The distinct endpoint ids of a sequence of records. *)
endpoints(records) ==
    {records[r].source_node : r \in 1 .. Len(records)} \cup
    {records[r].destination_node : r \in 1 .. Len(records)}

(* ------------------------------ layout -------------------------------- *)
Zero == <<0, 0>>

(* k = (width * height / node_count.max(1)).sqrt() * 1.5, in hundredths. *)
ideal_length(net, width, height) ==
    Quot(SqrtH(Quot(width * height, Max(node_count(net), 1))) * 3, 2)

(* dist = (dx*dx + dy*dy).sqrt().max(1e-2), in hundredths. *)
floored_length(dx, dy) == Max(SqrtH(dx * dx + dy * dy), 1)

(* force * d / dist for a force in pixels and dist in hundredths. *)
component(force, d, dist) == Quot(force * d * 100, dist)

(* The repulsion of the pair (i, j): <<fx, fy>>.  force = k * k / dist. *)
repulsion_force(net, k, i, j) ==
    LET dx == node_weight(net, j).point[1] - node_weight(net, i).point[1]
        dy == node_weight(net, j).point[2] - node_weight(net, i).point[2]
        dist == floored_length(dx, dy)
        force == Quot(k * k, 100 * dist)
    IN  <<component(force, dx, dist), component(force, dy, dist)>>

(* The two nested loops of the repulsion step, from the pair (i, j) on. *)
RECURSIVE repulsion(_, _, _, _, _, _)
repulsion(net, k, pinned_node, i, j, displacements) ==
    IF i >= node_count(net) THEN displacements
    ELSE IF pinned_node = Some(i)
    THEN repulsion(net, k, pinned_node, i + 1, i + 2, displacements)
    ELSE IF j >= node_count(net)
    THEN repulsion(net, k, pinned_node, i + 1, i + 2, displacements)
    ELSE LET f == repulsion_force(net, k, i, j)
             di == displacements[i + 1]
             dj == displacements[j + 1]
         IN  repulsion(net, k, pinned_node, i, j + 1,
                 [displacements EXCEPT
                     ![i + 1] = <<di[1] - f[1], di[2] - f[2]>>,
                     ![j + 1] = <<dj[1] + f[1], dj[2] + f[2]>>])

(* The attraction along one edge: <<fx, fy>>.  force = dist * dist / k. *)
attraction_force(net, k, edge) ==
    LET dx == node_weight(net, edge.dst).point[1] - node_weight(net, edge.src).point[1]
        dy == node_weight(net, edge.dst).point[2] - node_weight(net, edge.src).point[2]
        dist == floored_length(dx, dy)
        force == Quot(dist * dist, 100 * k)
    IN  <<component(force, dx, dist), component(force, dy, dist)>>

(* The attraction loop skipping a link only when its source is pinned. *)
RECURSIVE attraction_skipping_source_only(_, _, _, _, _)
attraction_skipping_source_only(net, k, pinned_node, e, displacements) ==
    IF e > edge_count(net) THEN displacements
    ELSE LET edge == net.graph.edges[e]
         IN  IF pinned_node = Some(edge.src)
             THEN attraction_skipping_source_only(net, k, pinned_node, e + 1,
                                                  displacements)
             ELSE LET f == attraction_force(net, k, edge)
                      ds == displacements[edge.src + 1]
                      d1 == [displacements EXCEPT
                                ![edge.src + 1] = <<ds[1] + f[1], ds[2] + f[2]>>]
                      dd == d1[edge.dst + 1]
                  IN  attraction_skipping_source_only(net, k, pinned_node, e + 1,
                          [d1 EXCEPT
                              ![edge.dst + 1] = <<dd[1] - f[1], dd[2] - f[2]>>])

(* The loop of the attraction step, from edge number e (1-based) on; the   *)
(* two updates of one edge are applied one after the other, as in the code *)
(* (a self-loop updates the same accumulator twice).                       *)
RECURSIVE attraction(_, _, _, _, _)
attraction(net, k, pinned_node, e, displacements) ==
    IF e > edge_count(net) THEN displacements
    ELSE LET edge == net.graph.edges[e]
         IN  IF pinned_node = Some(edge.src) \/ pinned_node = Some(edge.dst)
             THEN attraction(net, k, pinned_node, e + 1, displacements)
             ELSE LET f == attraction_force(net, k, edge)
                      ds == displacements[edge.src + 1]
                      d1 == [displacements EXCEPT
                                ![edge.src + 1] = <<ds[1] + f[1], ds[2] + f[2]>>]
                      dd == d1[edge.dst + 1]
                  IN  attraction(net, k, pinned_node, e + 1,
                          [d1 EXCEPT
                              ![edge.dst + 1] = <<dd[1] - f[1], dd[2] - f[2]>>])

(* The update loop with its `continue` for the pinned node left out. *)
skip_update_never(pinned_node, i) == FALSE

(* if pinned_node == Some(NodeIndex::new(i)) { continue; } in the update. *)
skip_update(pinned_node, i) == pinned_node = Some(i)

(* max_displacement carried over from the round before. *)
reset_max_displacement_never(previous) == previous

(* max_displacement = 0.0 at the start of each position update. *)
reset_max_displacement(previous) == 0

(* The position-update loop from node i on.  f64::clamp panics when its    *)
(* min exceeds its max; the x coordinate is clamped before the y           *)
(* coordinate, and the node has been moved before either clamp runs.       *)
RECURSIVE update_positions(_, _, _, _, _, _, _, _)
update_positions(nds, displacements, temp, width, height, pinned_node, i, max_displacement) ==
    IF i >= Len(nds)
    THEN [nodes |-> nds, max_displacement |-> max_displacement, panicked |-> FALSE]
    ELSE IF skip_update(pinned_node, i)
    THEN update_positions(nds, displacements, temp, width, height, pinned_node,
                          i + 1, max_displacement)
    ELSE LET disp == displacements[i + 1]
             disp_len == floored_length(disp[1], disp[2])
             md == Max(max_displacement, disp_len)
             x == nds[i + 1].point[1] + Quot(disp[1] * temp, disp_len)
             y == nds[i + 1].point[2] + Quot(disp[2] * temp, disp_len)
         IN  IF 50 > width - 50
             THEN [nodes |-> [nds EXCEPT ![i + 1].point = <<x, y>>],
                   max_displacement |-> md, panicked |-> TRUE]
             ELSE IF 50 > height - 50
             THEN [nodes |-> [nds EXCEPT ![i + 1].point =
                                 <<clamp(x, 50, width - 50), y>>],
                   max_displacement |-> md, panicked |-> TRUE]
             ELSE update_positions(
                      [nds EXCEPT ![i + 1].point =
                          <<clamp(x, 50, width - 50),
                            clamp(y, 50, height - 50)>>],
                      displacements, temp, width, height, pinned_node, i + 1, md)

(* Cooling left out. *)
cool_never(temp) == temp

(* temp *= cooling_factor, cooling_factor = 0.9. *)
cool(temp) == Quot(temp * 9, 10)

(* The store rebuilt from the moved nodes, its edges lost. *)
write_back_rebuilding(net, nds) ==
    [net EXCEPT !.graph = [nodes |-> nds, edges |-> <<>>]]

(* The nodes are moved in place through node_weight_mut: of the store,     *)
(* only the node weights change.                                           *)
write_back(net, nds) == [net EXCEPT !.graph.nodes = nds]

(* ------------------------------ actions ------------------------------- *)
NoLayout == [iterations |-> 0, done |-> 0]

Init ==
    /\ network = NetworkNew
    /\ pc = "idle"
    /\ layout = NoLayout
    /\ last = [op |-> "new"]
    /\ iters = 0
    /\ first_insert = [s \in {} |-> 0]
    /\ app = AppNew

(* first_insert after the store went from `before` to `after`. *)
record_first(before, after) ==
    [s \in DOMAIN after.node_indices |->
        IF s \in DOMAIN before.node_indices THEN first_insert[s]
        ELSE [index |-> after.node_indices[s],
              point |-> node_weight(after, after.node_indices[s]).point]]

(* The test's construction of a Network from parsed link records. *)
NetworkLoad ==
    /\ pc = "idle"
    /\ last.op = "new"
    /\ \E n \in 0 .. MaxEdges : \E records \in [1 .. n -> Links] :
          /\ LET withNodes == load_nodes(NetworkNew, records, 1)
                 r == load_links(withNodes, records, 1)
             IN  /\ network' = r.network
                 /\ pc' = IF r.panicked THEN "panic" ELSE "idle"
                 /\ last' = [op |-> "network_load", records |-> records,
                             pre |-> network]
                 /\ first_insert' = record_first(network, r.network)
    /\ UNCHANGED <<layout, iters, app>>

AddNode ==
    /\ pc = "idle"
    /\ \E id \in Ids, p \in Points :
          /\ LET node == [id |-> id, point |-> p]
                 r == add_node(network, node)
             IN  /\ network' = r.network
                 /\ last' = [op |-> "add_node", node |-> node, ret |-> r.ret,
                             pre |-> network]
                 /\ first_insert' = record_first(network, r.network)
    /\ UNCHANGED <<pc, layout, iters, app>>

AddLink ==
    /\ pc = "idle"
    /\ edge_count(network) < MaxEdges
    /\ \E link \in Links :
          LET r == add_link(network, link)
          IN  /\ network' = r.network
              /\ last' = [op |-> "add_link", link |-> link, ret |-> r.ret,
                          pre |-> network]
    /\ UNCHANGED <<pc, layout, iters, first_insert, app>>

FindNodeAtPoint ==
    /\ pc = "idle"
    /\ \E p \in Points, radius \in Radii :
          last' = [op |-> "find_node_at_point", x |-> p[1], y |-> p[2],
                   radius |-> radius,
                   ret |-> find_node_at_point(network, p[1], p[2], radius),
                   pre |-> network]
    /\ UNCHANGED <<network, pc, layout, iters, first_insert, app>>

(* apply_force_directed_layout: entry, up to the first test of the loop,  *)
(* with width and height drawn from canvases.                             *)
layout_call(canvases) ==
    /\ pc = "idle"
    /\ iters < MaxIterations
    /\ \E c \in canvases, iterations \in 0 .. MaxIterations - iters,
          pinned_node \in {None} \cup {Some(i) : i \in 0 .. Cardinality(AllIds) - 1} :
          /\ layout' = [width |-> c[1], height |-> c[2],
                        iterations |-> iterations, pinned_node |-> pinned_node,
                        k |-> ideal_length(network, c[1], c[2]),
                        temp |-> Quot(c[1] * 100, 5),
                        max_displacement |-> 0,
                        displacements |-> [i \in 1 .. node_count(network) |-> Zero],
                        done |-> 0, round_max |-> <<>>,
                        before |-> network.graph.nodes,
                        repelled |-> [i \in 1 .. node_count(network) |-> Zero]]
          /\ last' = [op |-> "apply_force_directed_layout", returned |-> FALSE,
                      width |-> c[1], height |-> c[2], iterations |-> iterations,
                      pinned_node |-> pinned_node, pre |-> network]
          /\ iters' = IF iterations = 0 THEN iters + 1 ELSE iters
    /\ pc' = "layout"
    /\ UNCHANGED <<network, first_insert, app>>

LayoutCall == layout_call(Canvases)

(* One pass of the body of `for _ in 0..iterations`. *)
LayoutIteration ==
    /\ pc = "layout"
    /\ layout.done < layout.iterations
    /\ LET cleared == [i \in 1 .. node_count(network) |-> Zero]
           repelled == repulsion(network, layout.k, layout.pinned_node, 0, 1, cleared)
           attracted == attraction(network, layout.k, layout.pinned_node, 1, repelled)
           u == update_positions(network.graph.nodes, attracted, layout.temp,
                                 layout.width, layout.height, layout.pinned_node,
                                 0, reset_max_displacement(layout.max_displacement))
       IN  /\ network' = write_back(network, u.nodes)
           /\ IF u.panicked
              THEN /\ pc' = "panic"
                   /\ layout' = [layout EXCEPT !.displacements = attracted,
                                               !.max_displacement = u.max_displacement,
                                               !.before = network.graph.nodes,
                                               !.repelled = repelled]
              ELSE /\ pc' = "layout"
                   /\ layout' = [layout EXCEPT !.displacements = attracted,
                                               !.max_displacement = u.max_displacement,
                                               !.temp = cool(layout.temp),
                                               !.done = layout.done + 1,
                                               !.round_max = Append(@, u.max_displacement),
                                               !.before = network.graph.nodes,
                                               !.repelled = repelled]
    /\ iters' = iters + 1
    /\ UNCHANGED <<last, first_insert, app>>

(* The loop is exhausted: return max_displacement; the locals are dropped. *)
LayoutReturn ==
    /\ pc = "layout"
    /\ layout.done >= layout.iterations
    /\ pc' = "idle"
    /\ last' = [last EXCEPT !.returned = TRUE] @@
               [ret |-> layout.max_displacement, done |-> layout.done,
                displacements |-> layout.displacements,
                round_max |-> layout.round_max]
    /\ layout' = NoLayout
    /\ UNCHANGED <<network, iters, first_insert, app>>

Next ==
    \/ NetworkLoad
    \/ AddNode
    \/ AddLink
    \/ FindNodeAtPoint
    \/ LayoutCall
    \/ LayoutIteration
    \/ LayoutReturn

Spec == Init /\ [][Next]_vars

(* ------------------- layout runs on a built store --------------------- *)
(* add_node of NodeIds[i], NodeIds[i+1], .. at points[i], points[i+1], ..  *)
RECURSIVE place(_, _, _)
place(net, points, i) ==
    IF i > Len(points) THEN net
    ELSE place(add_node(net, [id |-> NodeIds[i], point |-> points[i]]).network,
               points, i + 1)

(* For every stored id its index and its position. *)
inserted(net) ==
    [s \in DOMAIN net.node_indices |->
        [index |-> net.node_indices[s],
         point |-> node_weight(net, net.node_indices[s]).point]]

(* The link records of an input: up to MaxEdges of Links, in the order of  *)
(* LinkIds.                                                                *)
Rows ==
    UNION {{[a \in 1 .. m |-> CHOOSE l \in Links : l.link_id = LinkIds[picked[a]]] :
               picked \in {q \in [1 .. m -> 1 .. Len(LinkIds)] :
                              \A a, b \in 1 .. m : a < b => q[a] < q[b]}} :
           m \in 0 .. MaxEdges}

(* A store built by add_node and add_link, the links added in the order    *)
(* of LinkIds and every add_link having succeeded; then only layout calls  *)
(* follow.                                                                 *)
LayoutInit ==
    /\ \E n \in 0 .. Len(NodeIds), links \in Rows :
          \E points \in [1 .. n -> StartPoints] :
             LET r == load_links(place(NetworkNew, points, 1), links, 1)
             IN  /\ ~r.panicked
                 /\ network = r.network
                 /\ first_insert = inserted(r.network)
    /\ pc = "idle"
    /\ layout = NoLayout
    /\ last = [op |-> "new"]
    /\ iters = 0
    /\ app = AppNew

LayoutCallWide == layout_call(WideCanvases)

LayoutNext ==
    \/ LayoutCallWide
    \/ LayoutIteration
    \/ LayoutReturn

LayoutSpec == LayoutInit /\ [][LayoutNext]_vars

(* ---------------------- the application, main.rs ---------------------- *)
(* The rounds of apply_force_directed_layout on a canvas whose box is not  *)
(* empty, where no round panics: the store after `iterations` rounds.  No  *)
(* round changes the node count; the test on it has each round evaluated   *)
(* before the next one starts.                                             *)
RECURSIVE layout_rounds(_, _, _, _, _, _, _)
layout_rounds(net, k, temp, width, height, iterations, pinned_node) ==
    IF iterations = 0 THEN net
    ELSE LET cleared == [i \in 1 .. node_count(net) |-> Zero]
             repelled == repulsion(net, k, pinned_node, 0, 1, cleared)
             attracted == attraction(net, k, pinned_node, 1, repelled)
             u == update_positions(net.graph.nodes, attracted, temp, width, height,
                                   pinned_node, 0, reset_max_displacement(0))
             moved == write_back(net, u.nodes)
         IN  IF node_count(moved) = node_count(net)
             THEN layout_rounds(moved, k, cool(temp), width, height,
                                iterations - 1, pinned_node)
             ELSE moved

(* Network::apply_force_directed_layout as one step, for width and height  *)
(* of at least 100: the store it leaves.                                   *)
apply_force_directed_layout(net, width, height, iterations, pinned_node) ==
    layout_rounds(net, ideal_length(net, width, height), Quot(width * 100, 5),
                  width, height, iterations, pinned_node)

(* main, first loop: add_node for the source and the destination of every  *)
(* record from number r on unless the id is stored already; points[id] is  *)
(* the position rand::random_range draws for it.                           *)
RECURSIVE main_nodes(_, _, _, _)
main_nodes(net, records, r, points) ==
    IF r > Len(records) THEN net
    ELSE LET src == records[r].source_node
             dst == records[r].destination_node
             a == IF src \in DOMAIN net.node_indices THEN net
                  ELSE add_node(net, [id |-> src, point |-> points[src]]).network
             b == IF dst \in DOMAIN a.node_indices THEN a
                  ELSE add_node(a, [id |-> dst, point |-> points[dst]]).network
         IN  main_nodes(b, records, r + 1, points)

(* main before the layout call: the nodes, then add_link(link).expect(..)  *)
(* for every record, which finds both ends stored.                         *)
main_store(records, points) ==
    load_links(main_nodes(NetworkNew, records, 1, points), records, 1).network

(* main: the store is built, laid out in MainIterations rounds with no     *)
(* pin, and handed to AppModel.                                            *)
AppInit ==
    /\ \E records \in Rows, points \in [AllIds -> RandomPoints] :
          /\ network = apply_force_directed_layout(main_store(records, points),
                            WindowWidth, WindowHeight, MainIterations, None)
          /\ first_insert = inserted(main_store(records, points))
    /\ pc = "idle"
    /\ layout = NoLayout
    /\ last = [op |-> "main"]
    /\ iters = 0
    /\ app = AppNew

(* format!("Node{}", self.network.graph.node_count() + 1) *)
new_node_id(net) == "Node" \o ToString(node_count(net) + 1)

(* AppMsg::DrawRequested *)
draw_requested(net, a) ==
    [network |-> net, app |-> [a EXCEPT !.needs_redraw = TRUE], panicked |-> FALSE]

(* AppMsg::AddPoint((x, y)) *)
add_point(net, a, x, y) ==
    [network |-> add_node(net, [id |-> new_node_id(net), point |-> <<x, y>>]).network,
     app |-> a, panicked |-> FALSE]

(* UpdateLayout passing None whatever node is dragged. *)
update_layout_unpinned(net, a) ==
    [network |-> apply_force_directed_layout(net, WindowWidth, WindowHeight, 1, None),
     app |-> [a EXCEPT !.needs_redraw = TRUE], panicked |-> FALSE]

(* AppMsg::UpdateLayout *)
update_layout(net, a) ==
    [network |-> apply_force_directed_layout(net, WindowWidth, WindowHeight, 1,
                                             a.dragged_node),
     app |-> [a EXCEPT !.needs_redraw = TRUE], panicked |-> FALSE]

(* AppMsg::StartDrag(node_idx, x, y): dragged_node is set before           *)
(* node_weight_mut(node_idx).unwrap(), which panics on an index not in the *)
(* graph.                                                                  *)
start_drag(net, a, node_idx, x, y) ==
    IF node_idx >= node_count(net)
    THEN [network |-> net, app |-> [a EXCEPT !.dragged_node = Some(node_idx)],
          panicked |-> TRUE]
    ELSE [network |-> [net EXCEPT !.graph.nodes[node_idx + 1].point = <<x, y>>],
          app |-> [a EXCEPT !.dragged_node = Some(node_idx), !.needs_redraw = TRUE],
          panicked |-> FALSE]

(* AppMsg::UpdateDrag(offset_x, offset_y): dragged_node holds an index     *)
(* only after a StartDrag that did not panic, so the unwrap succeeds.      *)
update_drag(net, a, offset_x, offset_y) ==
    [network |->
        IF a.dragged_node = None THEN net
        ELSE LET node_idx == CHOOSE i \in a.dragged_node : TRUE
                 start == node_weight(net, node_idx).point
             IN  [net EXCEPT !.graph.nodes[node_idx + 1].point =
                     <<clamp(start[1] + offset_x, 50, WindowWidth - 50),
                       clamp(start[2] + offset_y, 50, WindowHeight - 50)>>],
     app |-> [a EXCEPT !.needs_redraw = TRUE], panicked |-> FALSE]

(* AppMsg::EndDrag *)
end_drag(net, a) ==
    [network |-> net,
     app |-> [a EXCEPT !.dragged_node = None, !.needs_redraw = TRUE],
     panicked |-> FALSE]

(* AppModel::update has handled one message: r is what its arm leaves,     *)
(* msg the message with its arguments, started the indices StartDrag was   *)
(* given since the last EndDrag.                                           *)
handle(msg, r, started) ==
    /\ network' = r.network
    /\ app' = [r.app EXCEPT !.handled = app.handled + 1, !.started = started]
    /\ pc' = IF r.panicked THEN "panic" ELSE "idle"
    /\ last' = msg @@ [pre |-> network, was |-> app]
    /\ first_insert' = record_first(network, r.network)
    /\ UNCHANGED <<layout, iters>>

Ready == pc = "idle" /\ app.handled < MaxMessages

DrawRequested ==
    /\ Ready
    /\ handle([op |-> "DrawRequested"], draw_requested(network, app), app.started)

AddPoint ==
    /\ Ready
    /\ \E p \in ClickPoints :
          handle([op |-> "AddPoint", x |-> p[1], y |-> p[2]],
                 add_point(network, app, p[1], p[2]), app.started)

UpdateLayout ==
    /\ Ready
    /\ handle([op |-> "UpdateLayout"], update_layout(network, app), app.started)

StartDrag ==
    /\ Ready
    /\ \E node_idx \in 0 .. node_count(network), p \in ClickPoints :
          handle([op |-> "StartDrag", node_idx |-> node_idx, x |-> p[1], y |-> p[2]],
                 start_drag(network, app, node_idx, p[1], p[2]),
                 app.started \cup {node_idx})

UpdateDrag ==
    /\ Ready
    /\ \E o \in DragOffsets :
          handle([op |-> "UpdateDrag", offset_x |-> o[1], offset_y |-> o[2]],
                 update_drag(network, app, o[1], o[2]), app.started)

EndDrag ==
    /\ Ready
    /\ handle([op |-> "EndDrag"], end_drag(network, app), {})

AppNext ==
    \/ DrawRequested
    \/ AddPoint
    \/ UpdateLayout
    \/ StartDrag
    \/ UpdateDrag
    \/ EndDrag

AppSpec == AppInit /\ [][AppNext]_vars
(* ------------------------------ claims -------------------------------- *)
IsLayout == last.op = "apply_force_directed_layout"
Returned == IsLayout /\ last.returned

(* The nodes a layout call with this pinned_node updates. *)
Updated(net, pinned_node) ==
    {i \in 0 .. node_count(net) - 1 : pinned_node # Some(i)}

InBox(point, width, height) ==
    /\ 50 <= point[1] /\ point[1] <= width - 50
    /\ 50 <= point[2] /\ point[2] <= height - 50

SetMax(S) == CHOOSE m \in S : \A x \in S : x <= m

(* Euclidean length of a displacement vector, in hundredths, no floor. *)
EuclidLen(d) == SqrtH(d[1] * d[1] + d[2] * d[2])

(* C1: add_node with an id already in the store returns the index the     *)
(* first insertion of that id returned, leaves the node count unchanged    *)
(* and leaves the stored position untouched, whatever position it is       *)
(* given; while no layout round has run, that position is the one given    *)
(* at the first insertion.                                                 *)
C1_AddNodeIdempotent ==
    (last.op = "add_node" /\ last.node.id \in DOMAIN last.pre.node_indices) =>
        /\ last.ret = first_insert[last.node.id].index
        /\ node_count(network) = node_count(last.pre)
        /\ node_weight(network, last.ret).point = node_weight(last.pre, last.ret).point
        /\ iters = 0 =>
              node_weight(network, last.ret).point = first_insert[last.node.id].point

(* A second add_node of an id, at a position other than its first. *)
C1_Witness ==
    /\ last.op = "add_node"
    /\ last.node.id \in DOMAIN last.pre.node_indices
    /\ iters = 0
    /\ last.node.point # first_insert[last.node.id].point
    /\ node_count(network) = 2

(* C2: add_link with an absent source or destination returns               *)
(* NodeNotFound(id) of the missing endpoint (the source when the source    *)
(* is missing, else the destination) and leaves the whole store as it      *)
(* was; add_link fails in no other case.                                   *)
C2_AddLinkNodeNotFound ==
    last.op = "add_link" =>
        LET srcMissing == last.link.source_node \notin DOMAIN last.pre.node_indices
            dstMissing == last.link.destination_node \notin DOMAIN last.pre.node_indices
        IN  /\ (srcMissing \/ dstMissing) =>
                  /\ last.ret = NodeNotFound(IF srcMissing THEN last.link.source_node
                                             ELSE last.link.destination_node)
                  /\ network = last.pre
            /\ ~last.ret.ok => (srcMissing \/ dstMissing)

(* A link from a stored node to an id never added, on a store that holds   *)
(* an edge already.                                                        *)
C2_Witness ==
    /\ last.op = "add_link"
    /\ last.link.source_node \in DOMAIN last.pre.node_indices
    /\ last.link.destination_node \notin DOMAIN last.pre.node_indices
    /\ ~last.ret.ok
    /\ edge_count(last.pre) >= 1

(* C3: during and after apply_force_directed_layout(.., Some(p)) the       *)
(* position of node p is the one it had when the call began.               *)
C3_PinnedNodeFixed ==
    IsLayout =>
        \A p \in last.pinned_node :
            p < node_count(network) =>
                node_weight(network, p).point = node_weight(last.pre, p).point

(* A two-round call that returned, pinned an existing node and moved       *)
(* another one.                                                            *)
C3_Witness ==
    /\ Returned
    /\ last.done >= 2
    /\ \E p \in last.pinned_node :
          /\ p < node_count(network)
          /\ \E q \in 0 .. node_count(network) - 1 :
                node_weight(network, q).point # node_weight(last.pre, q).point

(* C4 as stated, on a canvas where the box is not empty: after any call,  *)
(* with any iteration count, every non-pinned node lies in                 *)
(* [50, width-50] x [50, height-50].                                       *)
C4_BoundedAfterAnyCall ==
    (Returned /\ last.width >= 100 /\ last.height >= 100) =>
        \A i \in Updated(network, last.pinned_node) :
            InBox(node_weight(network, i).point, last.width, last.height)

(* C4, amended: after a call with iterations >= 1 that returns, every      *)
(* non-pinned node lies in [50, width-50] x [50, height-50]; a call with   *)
(* iterations = 0 leaves every position as it was.                         *)
C4_BoundedAfterIterations ==
    Returned =>
        /\ last.iterations >= 1 =>
              \A i \in Updated(network, last.pinned_node) :
                  InBox(node_weight(network, i).point, last.width, last.height)
        /\ last.iterations = 0 => network = last.pre

(* A returned call of at least one round that brought a node into the box  *)
(* from outside it.                                                        *)
C4_Witness ==
    /\ Returned
    /\ last.iterations >= 1
    /\ \E i \in Updated(network, last.pinned_node) :
          /\ ~InBox(node_weight(last.pre, i).point, last.width, last.height)
          /\ InBox(node_weight(network, i).point, last.width, last.height)

(* Squared distance of node i of net from (x, y). *)
Dist2(net, i, x, y) ==
    (x - node_weight(net, i).point[1]) * (x - node_weight(net, i).point[1]) +
    (y - node_weight(net, i).point[2]) * (y - node_weight(net, i).point[2])

(* C5: find_node_at_point(x, y, radius) returns the lowest index whose     *)
(* node is at distance <= radius from (x, y), None exactly when there is   *)
(* no such node, and leaves the store as it was.                           *)
C5_FindFirstWithinRadius ==
    last.op = "find_node_at_point" =>
        LET hit(i) == Dist2(network, i, last.x, last.y) <= last.radius * last.radius
        IN  /\ network = last.pre
            /\ (last.ret = None) <=> ~(\E i \in 0 .. node_count(network) - 1 : hit(i))
            /\ \A i \in last.ret :
                  /\ i \in 0 .. node_count(network) - 1
                  /\ hit(i)
                  /\ \A j \in 0 .. i - 1 : ~hit(j)

(* Node 0 is returned at distance exactly radius although node 1 is        *)
(* nearer.                                                                 *)
C5_Witness ==
    /\ last.op = "find_node_at_point"
    /\ last.ret = Some(0)
    /\ node_count(network) >= 2
    /\ Dist2(network, 0, last.x, last.y) = last.radius * last.radius
    /\ Dist2(network, 1, last.x, last.y) < Dist2(network, 0, last.x, last.y)

(* C6: after add_node for both endpoints of every record and then          *)
(* add_link for every record, no add_link has failed, the node count is    *)
(* the number of distinct endpoint ids, the edge count is the number of    *)
(* records, and every record has an edge between the indices of its two    *)
(* endpoint ids that carries its capacity and weight.                      *)
C6_ConstructionFromRecords ==
    last.op = "network_load" =>
        /\ pc # "panic"
        /\ node_count(network) = Cardinality(endpoints(last.records))
        /\ edge_count(network) = Len(last.records)
        /\ \A r \in 1 .. Len(last.records) :
              /\ last.records[r].source_node \in DOMAIN network.node_indices
              /\ last.records[r].destination_node \in DOMAIN network.node_indices
              /\ \E e \in 1 .. edge_count(network) :
                    LET edge == network.graph.edges[e]
                    IN  /\ edge.src = network.node_indices[last.records[r].source_node]
                        /\ edge.dst =
                              network.node_indices[last.records[r].destination_node]
                        /\ edge.link.capacity = last.records[r].capacity
                        /\ edge.link.weight = last.records[r].weight

(* Two records that share an endpoint: four endpoint ids, three nodes. *)
C6_Witness ==
    /\ last.op = "network_load"
    /\ Len(last.records) = 2
    /\ last.records[1].destination_node = last.records[2].source_node
    /\ Cardinality(endpoints(last.records)) = 3
    /\ node_count(network) = 3
    /\ edge_count(network) = 2

(* C7: add_link with both endpoints present returns Ok and appends         *)
(* exactly one edge, between the two mapped indices and carrying the       *)
(* link, leaving nodes, map and earlier edges as they were; a self-loop    *)
(* or a second link over a linked pair is appended like any other.         *)
C7_AddLinkAppendsEdge ==
    (/\ last.op = "add_link"
     /\ last.link.source_node \in DOMAIN last.pre.node_indices
     /\ last.link.destination_node \in DOMAIN last.pre.node_indices) =>
        /\ last.ret = Ok
        /\ network.graph.edges =
              Append(last.pre.graph.edges,
                     [src |-> last.pre.node_indices[last.link.source_node],
                      dst |-> last.pre.node_indices[last.link.destination_node],
                      link |-> last.link])
        /\ edge_count(network) = edge_count(last.pre) + 1
        /\ network.graph.nodes = last.pre.graph.nodes
        /\ network.node_indices = last.pre.node_indices

(* A self-loop added over a pair that an edge links already. *)
C7_Witness ==
    /\ last.op = "add_link"
    /\ last.ret = Ok
    /\ last.link.source_node = last.link.destination_node
    /\ \E e \in 1 .. edge_count(last.pre) :
          /\ last.pre.graph.edges[e].src = last.pre.node_indices[last.link.source_node]
          /\ last.pre.graph.edges[e].dst = last.pre.node_indices[last.link.source_node]
    /\ edge_count(network) = edge_count(last.pre) + 1

(* C8: apply_force_directed_layout never panics, and when it returns it    *)
(* has completed exactly the requested number of rounds.                   *)
C8_LayoutTotal ==
    /\ ~(IsLayout /\ pc = "panic")
    /\ Returned => last.done = last.iterations

(* C9 as stated: the value returned is the largest Euclidean length of     *)
(* the displacement accumulators of the last round over the nodes that     *)
(* round updated.                                                          *)
C9_ReturnsLargestLength ==
    (Returned /\ last.iterations >= 1 /\ Updated(network, last.pinned_node) # {}) =>
        last.ret = SetMax({EuclidLen(last.displacements[i + 1]) :
                              i \in Updated(network, last.pinned_node)})

(* C9, amended: the value returned is the largest of max(length, 1e-2)     *)
(* over the nodes the last round updated, the lengths taken from the last  *)
(* round's accumulators alone; it is 0.0 when iterations = 0 or when no    *)
(* node is updated.                                                        *)
C9_ReturnsLargestFlooredLength ==
    Returned =>
        last.ret =
            IF last.iterations = 0 \/ Updated(network, last.pinned_node) = {}
            THEN 0
            ELSE SetMax({Max(EuclidLen(last.displacements[i + 1]), 1) :
                            i \in Updated(network, last.pinned_node)})

(* A two-round call whose first round ended with a larger maximum than     *)
(* the second, and that returned the second.                               *)
C9_Witness ==
    /\ Returned
    /\ last.done = 2
    /\ last.round_max[1] > last.round_max[2]
    /\ last.ret = last.round_max[2]
    /\ last.ret > 1

(* C10: in every state the stored ids are pairwise distinct, the map has   *)
(* one entry per stored node and sends each id to the index of the node    *)
(* that carries it, the indices are 0 .. node_count-1, each id keeps the   *)
(* index its first insertion returned, and a new id gets the next index.   *)
C10_StoreConsistent ==
    LET n == node_count(network)
    IN  /\ \A i, j \in 1 .. n :
              network.graph.nodes[i].id = network.graph.nodes[j].id => i = j
        /\ DOMAIN network.node_indices = {network.graph.nodes[i].id : i \in 1 .. n}
        /\ Cardinality(DOMAIN network.node_indices) = n
        /\ \A s \in DOMAIN network.node_indices :
              /\ network.node_indices[s] \in 0 .. n - 1
              /\ node_weight(network, network.node_indices[s]).id = s
              /\ network.node_indices[s] = first_insert[s].index
        /\ (last.op = "add_node" /\ last.node.id \notin DOMAIN last.pre.node_indices) =>
              /\ last.ret = node_count(last.pre)
              /\ network.graph.nodes = Append(last.pre.graph.nodes, last.node)

(* A repeated add_node on a store of two nodes and an edge whose           *)
(* positions a layout round has moved.                                     *)
C10_Witness ==
    /\ last.op = "add_node"
    /\ last.node.id \in DOMAIN last.pre.node_indices
    /\ node_count(network) = 2
    /\ edge_count(network) >= 1
    /\ iters >= 1
    /\ \A s \in DOMAIN network.node_indices :
          node_weight(network, network.node_indices[s]).point # first_insert[s].point

(* ------------------- claims about one layout round -------------------- *)
(* A round of the running call has completed. *)
RoundRan == pc = "layout" /\ layout.done >= 1

(* The store as the last round found it. *)
PreRound == [network EXCEPT !.graph.nodes = layout.before]

(* The nodes the running call updates, and the node it pins, if stored. *)
Movable == Updated(network, layout.pinned_node)
Pinned == {p \in layout.pinned_node : p < node_count(network)}

(* The sum, over the nodes m, m+1, .. other than n, of the repulsion the   *)
(* pair of n and that node puts on n: k * k / dist along the unit vector   *)
(* from that node to n.                                                    *)
RECURSIVE PushSum(_, _, _, _)
PushSum(net, k, n, m) ==
    IF m >= node_count(net) THEN Zero
    ELSE LET rest == PushSum(net, k, n, m + 1)
             f == repulsion_force(net, k, m, n)
         IN  IF m = n THEN rest ELSE <<f[1] + rest[1], f[2] + rest[2]>>

(* C11: in a round with a pinned node p, the accumulator of every other    *)
(* node n, of lower or of higher index than p, holds after the repulsion   *)
(* step the contribution of every pair n is in, the pair (n, p) included,  *)
(* and the position of p is not changed.                                   *)
C11_PinnedStillRepels ==
    RoundRan =>
        \A p \in Pinned :
            /\ node_weight(network, p).point = layout.before[p + 1].point
            /\ \A n \in Movable :
                  layout.repelled[n + 1] = PushSum(PreRound, layout.k, n, 0)

(* The distance, in hundredths, node i has moved in the last round. *)
MovedBy(i) ==
    LET dx == node_weight(network, i).point[1] - layout.before[i + 1].point[1]
        dy == node_weight(network, i).point[2] - layout.before[i + 1].point[2]
    IN  SqrtH(dx * dx + dy * dy)

(* width / 5 multiplied by 0.9 once per completed round, r rounds done. *)
Temperature(width, r) == (width * 20 * 9 ^ r) \div 10 ^ r

(* The temperature plus the rounding of the model: disp_len is the floor   *)
(* of a root of at least one pixel, so a move exceeds temp by less than    *)
(* one part in a hundred.                                                  *)
Cap(temp) == temp + temp \div 100

(* C12 as stated: in every round every non-pinned node ends at distance    *)
(* at most the current temperature from where the round found it,          *)
(* wherever it started.                                                    *)
C12_MovesAtMostTemperature ==
    RoundRan =>
        \A i \in Movable :
            MovedBy(i) <= Cap(Temperature(layout.width, layout.done - 1))

(* C12, amended: in every round a non-pinned node that the round found     *)
(* inside [50, width-50] x [50, height-50] ends at distance at most the    *)
(* current temperature from where it was.                                  *)
C12_MovesAtMostTemperatureInBox ==
    RoundRan =>
        \A i \in Movable :
            InBox(layout.before[i + 1].point, layout.width, layout.height) =>
                MovedBy(i) <= Cap(Temperature(layout.width, layout.done - 1))

(* In the second round a node moves, within the box and clear of its       *)
(* border, by the cooled temperature to within a pixel.                    *)
C12_Witness ==
    /\ RoundRan
    /\ layout.done = 2
    /\ \E i \in Movable :
          /\ InBox(layout.before[i + 1].point, layout.width, layout.height)
          /\ MovedBy(i) >= Temperature(layout.width, 1) - 100
          /\ 50 < node_weight(network, i).point[1]
          /\ node_weight(network, i).point[1] < layout.width - 50
          /\ 50 < node_weight(network, i).point[2]
          /\ node_weight(network, i).point[2] < layout.height - 50

(* C13: in a round, every pair of distinct nodes, two nodes at the same    *)
(* coordinates included, gets from the repulsion step contributions that   *)
(* are equal and opposite, not zero and directed apart: every accumulator  *)
(* holds the contribution of every pair its node is in, and the            *)
(* contribution a pair puts on its second node points away from the first. *)
C13_RepulsionCoversEveryPair ==
    RoundRan =>
        /\ \A n \in 0 .. node_count(network) - 1 :
              layout.repelled[n + 1] = PushSum(PreRound, layout.k, n, 0)
        /\ \A i, j \in 0 .. node_count(network) - 1 :
              i < j =>
                 LET f == repulsion_force(PreRound, layout.k, i, j)
                     dx == layout.before[j + 1].point[1] - layout.before[i + 1].point[1]
                     dy == layout.before[j + 1].point[2] - layout.before[i + 1].point[2]
                 IN  f[1] * dx + f[2] * dy > 0

(* The sum, over the edges e, e+1, .. that do not touch the pinned node,   *)
(* of what the attraction along the edge puts on node n: the pull at the   *)
(* source, its opposite at the destination.                                *)
RECURSIVE PullSum(_, _, _, _, _)
PullSum(net, k, pinned_node, n, e) ==
    IF e > edge_count(net) THEN Zero
    ELSE LET edge == net.graph.edges[e]
             rest == PullSum(net, k, pinned_node, n, e + 1)
             f == attraction_force(net, k, edge)
             s == (IF edge.src = n THEN 1 ELSE 0) - (IF edge.dst = n THEN 1 ELSE 0)
         IN  IF Some(edge.src) = pinned_node \/ Some(edge.dst) = pinned_node
             THEN rest
             ELSE <<s * f[1] + rest[1], s * f[2] + rest[2]>>

(* C14: in a round with a pinned node p the attraction step changes no     *)
(* accumulator for a link that has p as source or destination, and adds    *)
(* equal and opposite contributions to the two ends of every other link.   *)
C14_PinnedLinksSkipped ==
    RoundRan =>
        \A n \in 0 .. node_count(network) - 1 :
            LET pull == PullSum(PreRound, layout.k, layout.pinned_node, n, 1)
            IN  layout.displacements[n + 1] =
                   <<layout.repelled[n + 1][1] + pull[1],
                     layout.repelled[n + 1][2] + pull[2]>>

(* A round with a pinned node, a link that touches it and a link that      *)
(* does not, each between nodes far enough apart to be pulled.             *)
C14_Witness ==
    /\ RoundRan
    /\ \E p \in Pinned :
          \E a, b \in 1 .. edge_count(network) :
             /\ p \in {network.graph.edges[a].src, network.graph.edges[a].dst}
             /\ p \notin {network.graph.edges[b].src, network.graph.edges[b].dst}
             /\ attraction_force(PreRound, layout.k, network.graph.edges[a]) # Zero
             /\ attraction_force(PreRound, layout.k, network.graph.edges[b]) # Zero
             /\ layout.displacements # layout.repelled

(* C15: during and after apply_force_directed_layout the node count, the   *)
(* id of every node, the id-to-index map, the edge count and every edge,   *)
(* endpoints and payload, are what they were when the call began.          *)
C15_LayoutChangesOnlyPositions ==
    IsLayout =>
        /\ node_count(network) = node_count(last.pre)
        /\ \A i \in 0 .. node_count(network) - 1 :
              node_weight(network, i).id = node_weight(last.pre, i).id
        /\ network.node_indices = last.pre.node_indices
        /\ edge_count(network) = edge_count(last.pre)
        /\ network.graph.edges = last.pre.graph.edges

(* A returned call of two rounds on three nodes and two links, that moved  *)
(* every node.                                                             *)
C15_Witness ==
    /\ Returned
    /\ last.done = 2
    /\ node_count(network) = 3
    /\ edge_count(network) = 2
    /\ \A i \in 0 .. node_count(network) - 1 :
          node_weight(network, i).point # node_weight(last.pre, i).point

(* ------------------- claims about the message loop -------------------- *)
(* The message update handled last, when it did not panic. *)
Handled(op) == last.op = op /\ pc # "panic"

(* The position of node i of net. *)
Pos(net, i) == node_weight(net, i).point

(* The nodes stored before the last message whose position it changed. *)
MovedNodes ==
    {i \in 0 .. node_count(last.pre) - 1 : Pos(network, i) # Pos(last.pre, i)}

InWindowBox(point) == InBox(point, WindowWidth, WindowHeight)

(* C16 as stated: from a StartDrag(n, ..) to the next EndDrag every        *)
(* UpdateLayout leaves the position of n unchanged and an UpdateDrag moves *)
(* no node outside those drags and leaves what it moves in the box; after  *)
(* EndDrag dragged_node is None and UpdateLayout pins nothing; an          *)
(* UpdateDrag with no drag under way changes no position.                  *)
C16_DragPinProtocol ==
    /\ Handled("UpdateLayout") =>
          /\ \A n \in last.was.started : Pos(network, n) = Pos(last.pre, n)
          /\ last.was.started = {} =>
                network = apply_force_directed_layout(last.pre, WindowWidth,
                                                      WindowHeight, 1, None)
    /\ Handled("UpdateDrag") =>
          /\ MovedNodes \subseteq last.was.started
          /\ \A n \in MovedNodes : InWindowBox(Pos(network, n))
          /\ last.was.started = {} => network = last.pre
    /\ Handled("EndDrag") => app.dragged_node = None

(* C16, amended: while dragged_node is Some(n), that is from a             *)
(* StartDrag(n, ..) of a stored node to the next EndDrag or StartDrag,     *)
(* UpdateLayout leaves the position of n unchanged and so does every       *)
(* message but UpdateDrag and StartDrag, and UpdateDrag moves n alone, by  *)
(* its offsets and into the box; StartDrag(m, x, y) makes m the dragged    *)
(* node and puts it at (x, y), in the box or not, moving nothing else;     *)
(* EndDrag sets dragged_node to None and moves nothing; with dragged_node  *)
(* None, UpdateLayout pins nothing and UpdateDrag changes no position.     *)
C16_DragPinProtocolOfDraggedNode ==
    /\ Handled("UpdateLayout") =>
          /\ \A n \in last.was.dragged_node : Pos(network, n) = Pos(last.pre, n)
          /\ last.was.dragged_node = None =>
                network = apply_force_directed_layout(last.pre, WindowWidth,
                                                      WindowHeight, 1, None)
          /\ app.dragged_node = last.was.dragged_node
    /\ (Handled("AddPoint") \/ Handled("DrawRequested")) =>
          /\ MovedNodes = {}
          /\ app.dragged_node = last.was.dragged_node
    /\ Handled("UpdateDrag") =>
          /\ MovedNodes \subseteq last.was.dragged_node
          /\ \A n \in last.was.dragged_node :
                /\ InWindowBox(Pos(network, n))
                /\ InWindowBox(<<Pos(last.pre, n)[1] + last.offset_x,
                                 Pos(last.pre, n)[2] + last.offset_y>>) =>
                      Pos(network, n) = <<Pos(last.pre, n)[1] + last.offset_x,
                                          Pos(last.pre, n)[2] + last.offset_y>>
          /\ last.was.dragged_node = None => network = last.pre
          /\ app.dragged_node = last.was.dragged_node
    /\ Handled("StartDrag") =>
          /\ app.dragged_node = Some(last.node_idx)
          /\ Pos(network, last.node_idx) = <<last.x, last.y>>
          /\ MovedNodes \subseteq {last.node_idx}
    /\ Handled("EndDrag") =>
          /\ app.dragged_node = None
          /\ network = last.pre

(* The third message of StartDrag, UpdateDrag, UpdateLayout: the drag has  *)
(* moved the dragged node, and the layout pins it and moves another node.  *)
C16_Witness ==
    /\ Handled("UpdateLayout")
    /\ app.handled = 3
    /\ \E n \in last.was.dragged_node :
          /\ InWindowBox(Pos(network, n))
          /\ Pos(network, n) \notin ClickPoints
          /\ MovedNodes # {}
          /\ n \notin MovedNodes

(* C17: processing one AddPoint message increases the node count by        *)
(* exactly 1, whatever ids the store holds.                                *)
C17_AddPointAddsNode ==
    Handled("AddPoint") => node_count(network) = node_count(last.pre) + 1
====
